---- MODULE Spec2Model ----
(***************************************************************************)
(* Model of the user-token lifecycle of the Feishu calendar plugin:        *)
(* the in-memory token store and renewal logic of user-token.ts and the    *)
(* token-aware request wrapper and tool entry point of calendar.ts.        *)
(*                                                                         *)
(* JavaScript runs each async function atomically from one await to the    *)
(* next, so every action below is one such segment: the code from the      *)
(* point where a task is resumed up to the point where it sends its next   *)
(* network request (or returns).  Awaits of promises that settle without   *)
(* a network round trip touch no shared state between the two segments     *)
(* they separate, so they are merged into the neighbouring segment.        *)
(***************************************************************************)
EXTENDS Integers, Sequences, FiniteSets, TLC

VARIABLES
    tokenStore,      \* Map<string, UserTokenEntry>: a function on the keys present
    appTokenCache,   \* Map<string, AppTokenCache>: a function on the keys present
    now,             \* Date.now(), in milliseconds
    task,            \* per task: where its async call stands, and its locals
    issued,          \* issuer: number of user token pairs issued so far
    liveRT,          \* issuer: refresh tokens it would still accept
    consumed,        \* issuer: refresh tokens already exchanged (single use)
    account,         \* the tool layer's firstAccount (accountId, appId, appSecret)
    userPair         \* the token pair the end user (agent memory) currently holds

vars == <<tokenStore, appTokenCache, now, task, issued, liveRT, consumed,
          account, userPair>>

----------------------------------------------------------------------------
(* Bounds of the model. *)

MaxIssued == 2
MaxTicks == 1
StartTime == 1000000

\* Two concurrent call chains: enough for every interleaving of two callers.
Tasks == {"t1", "t2"}

----------------------------------------------------------------------------
(* Values. An optional value (a?: T) is <<>> when undefined and <<v>>      *)
(* otherwise. Tokens are <<kind, n>>: "u" a user access token, "r" a       *)
(* refresh token, "a" an application token.                                *)

Undefined == <<>>
Some(v) == <<v>>

UserTok(n) == <<"u", n>>
RefreshTok(n) == <<"r", n>>
AppTok(n) == <<"a", n>>
EmptyString == <<"", 0>>

\* JavaScript truthiness of an optional string: undefined and "" are falsy.
Truthy(opt) == opt # Undefined /\ opt[1] # EmptyString

\* a ?? d
OrDefault(opt, d) == IF opt = Undefined THEN d ELSE opt[1]

USER_TOKEN_EXPIRED_CODES == {99991663, 99991664, 99991665}

EXPIRY_BUFFER_MS == 5 * 60 * 1000

DefaultUserExpiresIn == 6900
DefaultAppExpire == 7200

\* Mutant: the lifetime is taken for milliseconds.
ExpiresAt_NoSeconds(writeTime, expiresIn) == writeTime + expiresIn - EXPIRY_BUFFER_MS
\* Date.now() + expiresIn * 1000 - EXPIRY_BUFFER_MS
ExpiresAt(writeTime, expiresIn) == writeTime + expiresIn * 1000 - EXPIRY_BUFFER_MS

\* Mutant: an omitted accountId is spelled out as a key of its own.
storeKey_Spelled(accountId) == IF accountId = Undefined THEN "undefined" ELSE accountId[1]
storeKey(accountId) == OrDefault(accountId, "default")

\* Map.set / Map.delete on a function whose domain is the set of keys present.
MapSet(m, k, v) == [x \in DOMAIN m \cup {k} |-> IF x = k THEN v ELSE m[x]]
MapDelete(m, k) == [x \in DOMAIN m \ {k} |-> m[x]]
EmptyMap == <<>>

----------------------------------------------------------------------------
(* Inputs the callers and the remote endpoints can supply. *)

AccountIdInputs == {Undefined, Some("default")}

\* FeishuClientCredentials: appId and appSecret may be missing.
CredsInputs ==
    { [accountId |-> Undefined, appId |-> i, appSecret |-> s] :
        i \in {Undefined, Some(<<"app_id", 1>>)},
        s \in {Undefined, Some(<<"app_secret", 1>>)} } \
    { [accountId |-> Undefined, appId |-> Undefined, appSecret |-> Undefined] }

\* The clock values the model visits: whole default user-token lifetimes (net
\* of the buffer) after the start. An entry written at one value with the
\* default lifetime expires exactly at the next.
ClockValues ==
    { StartTime + b * ExpiresAt(0, DefaultUserExpiresIn) : b \in 0..MaxTicks }

\* expiresIn of storeUserToken: omitted (6900), or so short that the entry is
\* stale as soon as it is written.
StoreExpiresInInputs == {Undefined}

\* Replies of the application-token endpoint.
AppReplies ==
    { [kind |-> "json", code |-> 0, app_access_token |-> AppTok(1), expire |-> e] :
        e \in {Undefined, Some(300)} } \cup
    { [kind |-> "json", code |-> c, app_access_token |-> AppTok(0), expire |-> Undefined] :
        c \in {10003} } \cup
    { [kind |-> "transport", code |-> 0, app_access_token |-> AppTok(0), expire |-> Undefined] }

\* Non-zero codes of the refresh endpoint (one of them is also an "expired" code
\* of the business API).
RefreshErrorCodes == {20037, 99991663}

\* expires_in of a successful refresh reply.
RefreshExpiresInInputs == {Undefined, Some(300)}

NoToken == <<"none", 0>>
NoCode == -1
NoReply == [kind |-> "none", code |-> 0, access_token |-> NoToken,
            refresh_token |-> NoToken, expires_in |-> Undefined]

----------------------------------------------------------------------------
(* Outcomes of getUserAccessToken. *)

Ok(token, refreshed) ==
    [kind |-> "ok", token |-> token, refreshed |-> refreshed, msg |-> ""]
Failure(kind, msg) ==
    [kind |-> kind, token |-> NoToken, refreshed |-> FALSE, msg |-> msg]
NoResult == [kind |-> "none", token |-> NoToken, refreshed |-> FALSE, msg |-> ""]

\* Mutant: a missing entry reported as an expired one.
NotFoundOutcome_AsExpired == Failure("UserTokenExpiredError", "not found")
\* throw new UserTokenNotFoundError()
NotFoundOutcome == Failure("UserTokenNotFoundError", "not found")
\* Mutant: an unrenewable entry reported as a missing one.
UnrenewableOutcome_AsNotFound == Failure("UserTokenNotFoundError", "expired")
\* throw new UserTokenExpiredError()   (expired, no refresh token)
UnrenewableOutcome == Failure("UserTokenExpiredError", "expired")
\* Mutant: only the known "expired" codes count as refresh-token invalidity.
RefreshRejectedOutcome_ByCode(code) ==
    IF code \in USER_TOKEN_EXPIRED_CODES
    THEN Failure("UserTokenExpiredError", "refresh rejected")
    ELSE Failure("Error", "refresh failed")
\* throw new UserTokenExpiredError(`refresh_token ... code ...`)
RefreshRejectedOutcome(code) == Failure("UserTokenExpiredError", "refresh rejected")
\* throw new Error(`Feishu credentials not configured ...`)
NotConfiguredOutcome == Failure("Error", "credentials not configured")
\* throw new Error(`Failed to get app_access_token: ...`)
AppTokenFailedOutcome(code) == Failure("Error", "failed to get app_access_token")
\* fetch() or res.json() rejects: the rejection propagates as it is
TransportOutcome == Failure("TransportError", "transport")

----------------------------------------------------------------------------
(* A task: one asynchronous call chain.                                    *)
(*   pc       "idle", "appSent" (application-token request in flight),     *)
(*            "refreshSent" (refresh request in flight), "refreshReplied"  *)
(*            (the issuer has answered, the reply is in flight),           *)
(*            "bizSent" (a business request in flight), "done"             *)
(*   caller   who awaits getUserAccessToken: "api" (a direct caller of the *)
(*            library), "first" or "retry" (the two calls in               *)
(*            feishuRequestWithTokenRefresh)                               *)
(*   key, appKey, refreshToken, appToken   locals of getUserAccessToken,   *)
(*            getAppAccessToken and refreshUserToken                       *)
(*   result   how the last getUserAccessToken settled                      *)
(*   appCalls, refreshCalls   requests sent to the two issuer endpoints by *)
(*            the current getUserAccessToken invocation                    *)
(*   bizCalls  business requests sent by the current wrapper invocation    *)
(*   bearer    the token on the business request in flight                 *)
(*   bizCode   data.code of the last business response feishuRequest read  *)
(*             (NoCode: none read, or the response never arrived)          *)
(*   remaining wrapper invocations execute still has to make               *)
(*   toolResult what execute returned                                      *)

IdleTask ==
    [pc |-> "idle", caller |-> "api", key |-> "default", appKey |-> "default",
     refreshToken |-> NoToken, appToken |-> NoToken, reply |-> NoReply,
     result |-> NoResult, appCalls |-> 0, refreshCalls |-> 0,
     bizCalls |-> 0, bearer |-> NoToken, bizCode |-> NoCode, remaining |-> 0,
     toolResult |-> "none"]

\* Mutant: every failure asks the user for a new token.
ToolFailure_Always(outcome) == "token_expired"
\* execute's catch block: token_expired: true for the two token errors only.
ToolFailure(outcome) ==
    IF outcome.kind \in {"UserTokenExpiredError", "UserTokenNotFoundError"}
    THEN "token_expired"
    ELSE "error"

\* The locals of a settled getUserAccessToken call are dropped.
Settled(rec, outcome) ==
    [rec EXCEPT !.result = outcome, !.appKey = "default",
                !.refreshToken = NoToken, !.appToken = NoToken, !.reply = NoReply]

\* feishuRequest sends the business request with the token as bearer.
SendBusiness(rec, token) ==
    [rec EXCEPT !.pc = "bizSent", !.bearer = token, !.bizCalls = @ + 1]

\* getUserAccessToken settles with `outcome`: control returns to the caller.
\* A direct caller is done; the wrapper sends the business request with the
\* token, and lets a failure propagate to execute's catch block.
Finish(rec, outcome) ==
    IF rec.caller = "api"
    THEN [Settled(rec, outcome) EXCEPT !.pc = "done"]
    ELSE IF outcome.kind = "ok"
    THEN SendBusiness(Settled(rec, outcome), outcome.token)
    ELSE [Settled(rec, outcome) EXCEPT !.pc = "done",
                                       !.toolResult = ToolFailure(outcome)]

\* !appId, !appSecret
Falsy(opt) == ~Truthy(opt)

\* Mutant: the comparison the wrong way round.
NotExpired_Reversed(entry) == entry.expiresAt < now
\* entry.expiresAt > Date.now()
NotExpired(entry) == entry.expiresAt > now

\* Mutant: the cache is consulted before the credentials are checked.
GetAppAccessTokenStart_CacheFirst(cache, creds) ==
    LET accountId == OrDefault(creds.accountId, "default")
    IN  IF accountId \in DOMAIN cache /\ cache[accountId].expiresAt > now
        THEN [kind |-> "cached", token |-> cache[accountId].token]
        ELSE IF ~Truthy(creds.appId) \/ ~Truthy(creds.appSecret)
        THEN [kind |-> "throw", token |-> NoToken]
        ELSE [kind |-> "fetch", token |-> NoToken]
\* Mutant: the cache is never consulted, a token is fetched every time.
GetAppAccessTokenStart_NoCache(cache, creds) ==
    IF Falsy(creds.appId) \/ Falsy(creds.appSecret)
    THEN [kind |-> "throw", token |-> NoToken]
    ELSE [kind |-> "fetch", token |-> NoToken]
\* getAppAccessToken up to its first await: throw, return the cached token, or fetch.
GetAppAccessTokenStart(cache, creds) ==
    LET accountId == OrDefault(creds.accountId, "default")
    IN  IF Falsy(creds.appId) \/ Falsy(creds.appSecret)
        THEN [kind |-> "throw", token |-> NoToken]
        ELSE IF accountId \in DOMAIN cache /\ NotExpired(cache[accountId])
        THEN [kind |-> "cached", token |-> cache[accountId].token]
        ELSE [kind |-> "fetch", token |-> NoToken]

\* refreshUserToken sends its request to the refresh endpoint.
SendRefresh(rec, appToken) ==
    [rec EXCEPT !.pc = "refreshSent", !.appToken = appToken,
                !.refreshCalls = @ + 1]

\* refreshUserToken up to the first network request it sends.
RefreshUserTokenStart(cache, rec, refreshToken, creds) ==
    LET app == GetAppAccessTokenStart(cache, creds)
        r == [rec EXCEPT !.refreshToken = refreshToken]
    IN  CASE app.kind = "throw" -> Finish(r, NotConfiguredOutcome)
          [] app.kind = "cached" -> SendRefresh(r, app.token)
          [] app.kind = "fetch" ->
                [r EXCEPT !.pc = "appSent", !.appCalls = @ + 1]

\* Mutant: the application token is cached under the key of the user entry.
GetUserAccessTokenStart_AppKeyFromAccount(store, cache, rec, accountId, creds) ==
    LET key == storeKey(accountId)
        creds2 == [creds EXCEPT !.accountId = accountId]
        r == [rec EXCEPT !.key = key,
                         !.appKey = OrDefault(creds2.accountId, "default"),
                         !.result = NoResult,
                         !.appCalls = 0, !.refreshCalls = 0]
    IN  IF key \notin DOMAIN store
        THEN Finish(r, NotFoundOutcome)
        ELSE IF NotExpired(store[key])
        THEN Finish(r, Ok(store[key].userAccessToken, FALSE))
        ELSE IF Truthy(store[key].refreshToken)
        THEN RefreshUserTokenStart(cache, r, store[key].refreshToken[1], creds2)
        ELSE Finish(r, UnrenewableOutcome)
\* Mutant: an entry whose expiresAt is 0 counts as no entry (!entry.expiresAt).
GetUserAccessTokenStart_ZeroIsMissing(store, cache, rec, accountId, creds) ==
    LET key == storeKey(accountId)
        r == [rec EXCEPT !.key = key,
                         !.appKey = OrDefault(creds.accountId, "default"),
                         !.result = NoResult,
                         !.appCalls = 0, !.refreshCalls = 0]
    IN  IF key \notin DOMAIN store \/ store[key].expiresAt = 0
        THEN Finish(r, NotFoundOutcome)
        ELSE IF NotExpired(store[key])
        THEN Finish(r, Ok(store[key].userAccessToken, FALSE))
        ELSE IF Truthy(store[key].refreshToken)
        THEN RefreshUserTokenStart(cache, r, store[key].refreshToken[1], creds)
        ELSE Finish(r, UnrenewableOutcome)
\* Mutant: an expired entry without refresh token is returned all the same.
GetUserAccessTokenStart_StaleFallback(store, cache, rec, accountId, creds) ==
    LET key == storeKey(accountId)
        r == [rec EXCEPT !.key = key,
                         !.appKey = OrDefault(creds.accountId, "default"),
                         !.result = NoResult,
                         !.appCalls = 0, !.refreshCalls = 0]
    IN  IF key \notin DOMAIN store
        THEN Finish(r, NotFoundOutcome)
        ELSE IF NotExpired(store[key])
        THEN Finish(r, Ok(store[key].userAccessToken, FALSE))
        ELSE IF Truthy(store[key].refreshToken)
        THEN RefreshUserTokenStart(cache, r, store[key].refreshToken[1], creds)
        ELSE Finish(r, Ok(store[key].userAccessToken, FALSE))
\* getUserAccessToken up to its first network request (or its return).
GetUserAccessTokenStart(store, cache, rec, accountId, creds) ==
    LET key == storeKey(accountId)
        r == [rec EXCEPT !.key = key,
                         !.appKey = OrDefault(creds.accountId, "default"),
                         !.result = NoResult,
                         !.appCalls = 0, !.refreshCalls = 0]
    IN  IF key \notin DOMAIN store
        THEN Finish(r, NotFoundOutcome)
        ELSE IF NotExpired(store[key])
        THEN Finish(r, Ok(store[key].userAccessToken, FALSE))
        ELSE IF Truthy(store[key].refreshToken)
        THEN RefreshUserTokenStart(cache, r, store[key].refreshToken[1], creds)
        ELSE Finish(r, UnrenewableOutcome)

----------------------------------------------------------------------------
(* The synchronous operations of the store. *)

\* The entry storeUserToken writes.
StoredEntry(userAccessToken, refreshToken, expiresIn) ==
    [userAccessToken |-> userAccessToken,
     refreshToken |-> refreshToken,
     expiresAt |-> ExpiresAt(now, OrDefault(expiresIn, DefaultUserExpiresIn))]

\* Mutant: a deposit without refresh token keeps the one already stored.
storeUserToken_Merges(store, accountId, userAccessToken, refreshToken, expiresIn) ==
    LET key == storeKey(accountId)
        kept == IF refreshToken = Undefined /\ key \in DOMAIN store
                THEN store[key].refreshToken
                ELSE refreshToken
    IN  MapSet(store, key, StoredEntry(userAccessToken, kept, expiresIn))

storeUserToken(store, accountId, userAccessToken, refreshToken, expiresIn) ==
    MapSet(store, storeKey(accountId),
           StoredEntry(userAccessToken, refreshToken, expiresIn))

\* Mutant: the forced expiry hits the entries of all keys.
invalidateUserToken_AllKeys(store, accountId) ==
    LET key == storeKey(accountId)
    IN  IF key \in DOMAIN store
        THEN [x \in DOMAIN store |-> [store[x] EXCEPT !.expiresAt = 0]]
        ELSE store

\* Mutant: the forced expiry also forgets the refresh token.
invalidateUserToken_DropsRefresh(store, accountId) ==
    LET key == storeKey(accountId)
    IN  IF key \in DOMAIN store
        THEN [store EXCEPT ![key].expiresAt = 0, ![key].refreshToken = Undefined]
        ELSE store

invalidateUserToken(store, accountId) ==
    LET key == storeKey(accountId)
    IN  IF key \in DOMAIN store
        THEN [store EXCEPT ![key].expiresAt = 0]
        ELSE store

\* Mutant: an omitted accountId clears the "default" entry only.
clearUserToken_DefaultKey(store, accountId) ==
    MapDelete(store, storeKey(accountId))

clearUserToken(store, accountId) ==
    IF accountId # Undefined
    THEN MapDelete(store, storeKey(accountId))
    ELSE EmptyMap

hasUserToken(store, accountId) == storeKey(accountId) \in DOMAIN store

\* Mutant: a range test instead of the table.
isUserTokenExpiredCode_Range(code) == code \div 10 = 9999166
isUserTokenExpiredCode(code) == code \in USER_TOKEN_EXPIRED_CODES

\* Mutant: the expiry buffer is forgotten on renewal.
RenewedEntry_NoBuffer(reply) ==
    [userAccessToken |-> reply.access_token,
     refreshToken |-> Some(reply.refresh_token),
     expiresAt |-> now + OrDefault(reply.expires_in, DefaultUserExpiresIn) * 1000]
\* The entry getUserAccessToken writes after a successful refresh exchange.
RenewedEntry(reply) ==
    [userAccessToken |-> reply.access_token,
     refreshToken |-> Some(reply.refresh_token),
     expiresAt |-> ExpiresAt(now, OrDefault(reply.expires_in, DefaultUserExpiresIn))]

\* The entry getAppAccessToken caches after a successful fetch.
AppCacheEntry(reply) ==
    [token |-> reply.app_access_token,
     expiresAt |-> ExpiresAt(now, OrDefault(reply.expire, DefaultAppExpire))]

----------------------------------------------------------------------------
(* Actions. *)

Busy(t) == task[t].pc \notin {"idle", "done"}

\* A caller deposits a token pair it obtained from the issuer.
StoreUserToken(accountIds, expiresIns) ==
    /\ \E accountId \in accountIds,
          withRefresh \in BOOLEAN, expiresIn \in expiresIns :
          tokenStore' = storeUserToken(tokenStore, accountId, UserTok(userPair),
                            IF withRefresh THEN Some(RefreshTok(userPair)) ELSE Undefined,
                            expiresIn)
    /\ UNCHANGED <<appTokenCache, now, task, issued, liveRT, consumed, account, userPair>>

\* A caller asks for a usable token: the call runs to its first network request.
GetUserAccessToken(t, accountIds, credsSet) ==
    /\ ~Busy(t)
    /\ \E accountId \in accountIds, creds \in credsSet :
          task' = [task EXCEPT ![t] =
                      GetUserAccessTokenStart(tokenStore, appTokenCache, IdleTask,
                                              accountId, creds)]
    /\ UNCHANGED <<tokenStore, appTokenCache, now, issued, liveRT, consumed, account, userPair>>

\* Mutant: the fetched application token is used but not cached.
AppTokenResponse_CachesNothing(t) ==
    /\ task[t].pc = "appSent"
    /\ \E reply \in AppReplies :
          IF reply.kind = "transport"
          THEN task' = [task EXCEPT ![t] = Finish(@, TransportOutcome)]
          ELSE IF reply.code # 0
          THEN task' = [task EXCEPT ![t] = Finish(@, AppTokenFailedOutcome(reply.code))]
          ELSE task' = [task EXCEPT ![t] = SendRefresh(@, reply.app_access_token)]
    /\ UNCHANGED <<tokenStore, appTokenCache, now, issued, liveRT, consumed,
                   account, userPair>>

\* Mutant: a failed application-token fetch is tried again.
AppTokenResponse_Retries(t) ==
    /\ task[t].pc = "appSent"
    /\ \E reply \in AppReplies :
          IF reply.kind = "transport"
          THEN /\ task' = [task EXCEPT ![t] = Finish(@, TransportOutcome)]
               /\ UNCHANGED appTokenCache
          ELSE IF reply.code # 0
          THEN /\ task[t].appCalls < 3
               /\ task' = [task EXCEPT ![t].appCalls = @ + 1]
               /\ UNCHANGED appTokenCache
          ELSE /\ appTokenCache' = MapSet(appTokenCache, task[t].appKey, AppCacheEntry(reply))
               /\ task' = [task EXCEPT ![t] = SendRefresh(@, reply.app_access_token)]
    /\ UNCHANGED <<tokenStore, now, issued, liveRT, consumed, account, userPair>>

\* The application-token endpoint answers; getAppAccessToken resumes, and on
\* success caches the token and refreshUserToken sends the refresh request.
AppTokenResponse(t) ==
    /\ task[t].pc = "appSent"
    /\ \E reply \in AppReplies :
          IF reply.kind = "transport"
          THEN /\ task' = [task EXCEPT ![t] = Finish(@, TransportOutcome)]
               /\ UNCHANGED appTokenCache
          ELSE IF reply.code # 0
          THEN /\ task' = [task EXCEPT ![t] = Finish(@, AppTokenFailedOutcome(reply.code))]
               /\ UNCHANGED appTokenCache
          ELSE /\ appTokenCache' = MapSet(appTokenCache, task[t].appKey, AppCacheEntry(reply))
               /\ task' = [task EXCEPT ![t] = SendRefresh(@, reply.app_access_token)]
    /\ UNCHANGED <<tokenStore, now, issued, liveRT, consumed, account, userPair>>

\* The issuer handles a refresh request. A refresh token is single use: an
\* accepted exchange consumes it and issues a new pair. The issuer may also
\* reject any request, or the transport may fail.
IssuerRefresh(t) ==
    /\ task[t].pc = "refreshSent"
    /\ \/ /\ task[t].refreshToken \in liveRT
          /\ issued < MaxIssued
          /\ \E e \in RefreshExpiresInInputs :
                task' = [task EXCEPT ![t].pc = "refreshReplied",
                                     ![t].reply =
                                        [kind |-> "json", code |-> 0,
                                         access_token |-> UserTok(issued + 1),
                                         refresh_token |-> RefreshTok(issued + 1),
                                         expires_in |-> e]]
          /\ issued' = issued + 1
          /\ liveRT' = (liveRT \ {task[t].refreshToken}) \cup {RefreshTok(issued + 1)}
          /\ consumed' = consumed \cup {task[t].refreshToken}
       \/ /\ \E c \in RefreshErrorCodes :
                task' = [task EXCEPT ![t].pc = "refreshReplied",
                                     ![t].reply = [NoReply EXCEPT !.kind = "json", !.code = c]]
          /\ UNCHANGED <<issued, liveRT, consumed>>
       \/ /\ task' = [task EXCEPT ![t].pc = "refreshReplied",
                                  ![t].reply = [NoReply EXCEPT !.kind = "transport"]]
          /\ UNCHANGED <<issued, liveRT, consumed>>
    /\ UNCHANGED <<tokenStore, appTokenCache, now, account, userPair>>

\* Mutant: a rejected refresh drops the stale entry.
RefreshResponse_DropsStale(t) ==
    /\ task[t].pc = "refreshReplied"
    /\ LET reply == task[t].reply
       IN  IF reply.kind = "transport"
           THEN /\ task' = [task EXCEPT ![t] = Finish(@, TransportOutcome)]
                /\ UNCHANGED tokenStore
           ELSE IF reply.code # 0
           THEN /\ task' = [task EXCEPT ![t] = Finish(@, RefreshRejectedOutcome(reply.code))]
                /\ tokenStore' = MapDelete(tokenStore, task[t].key)
           ELSE /\ tokenStore' = MapSet(tokenStore, task[t].key, RenewedEntry(reply))
                /\ task' = [task EXCEPT ![t] = Finish(@, Ok(reply.access_token, TRUE))]
    /\ UNCHANGED <<appTokenCache, now, issued, liveRT, consumed, account, userPair>>

\* Mutant: the renewal hands out the application token it was authorized with.
RefreshResponse_ReturnsAppToken(t) ==
    /\ task[t].pc = "refreshReplied"
    /\ LET reply == task[t].reply
       IN  IF reply.kind = "transport"
           THEN /\ task' = [task EXCEPT ![t] = Finish(@, TransportOutcome)]
                /\ UNCHANGED tokenStore
           ELSE IF reply.code # 0
           THEN /\ task' = [task EXCEPT ![t] = Finish(@, RefreshRejectedOutcome(reply.code))]
                /\ UNCHANGED tokenStore
           ELSE /\ tokenStore' = MapSet(tokenStore, task[t].key, RenewedEntry(reply))
                /\ task' = [task EXCEPT ![t] = Finish(@, Ok(task[t].appToken, TRUE))]
    /\ UNCHANGED <<appTokenCache, now, issued, liveRT, consumed, account, userPair>>

\* The refresh reply arrives; refreshUserToken and getUserAccessToken resume.
RefreshResponse(t) ==
    /\ task[t].pc = "refreshReplied"
    /\ LET reply == task[t].reply
       IN  IF reply.kind = "transport"
           THEN /\ task' = [task EXCEPT ![t] = Finish(@, TransportOutcome)]
                /\ UNCHANGED tokenStore
           ELSE IF reply.code # 0
           THEN /\ task' = [task EXCEPT ![t] = Finish(@, RefreshRejectedOutcome(reply.code))]
                /\ UNCHANGED tokenStore
           ELSE /\ tokenStore' = MapSet(tokenStore, task[t].key, RenewedEntry(reply))
                /\ task' = [task EXCEPT ![t] = Finish(@, Ok(reply.access_token, TRUE))]
    /\ UNCHANGED <<appTokenCache, now, issued, liveRT, consumed, account, userPair>>

InvalidateUserToken(accountIds) ==
    /\ \E accountId \in accountIds :
          tokenStore' = invalidateUserToken(tokenStore, accountId)
    /\ UNCHANGED <<appTokenCache, now, task, issued, liveRT, consumed, account, userPair>>

ClearUserToken(accountIds) ==
    /\ \E accountId \in accountIds :
          tokenStore' = clearUserToken(tokenStore, accountId)
    /\ UNCHANGED <<appTokenCache, now, task, issued, liveRT, consumed, account, userPair>>

\* The end user obtains a new token pair from the issuer out of band.
IssueOutOfBand ==
    /\ issued < MaxIssued
    /\ issued' = issued + 1
    /\ liveRT' = liveRT \cup {RefreshTok(issued + 1)}
    /\ userPair' = issued + 1
    /\ UNCHANGED <<tokenStore, appTokenCache, now, task, consumed, account>>

\* Time passes: the clock moves to a later one of the values the model visits.
Tick(clockValues) ==
    /\ \E n \in clockValues : n > now /\ now' = n
    /\ UNCHANGED <<tokenStore, appTokenCache, task, issued, liveRT, consumed, account, userPair>>

----------------------------------------------------------------------------
(* The tool layer: execute and feishuRequestWithTokenRefresh. *)

\* Codes of the business API: success, the three "expired" codes, their two
\* neighbours and another error.
BusinessCodes == {0, 99991662, 99991663, 99991664, 99991665, 99991666, 190002}

\* firstAccount: the application credentials may be missing from the config.
ToolAccount == [accountId |-> Some("acct1"), appId |-> Some(<<"app_id", 1>>),
                appSecret |-> Some(<<"app_secret", 1>>)]
ToolAccountInputs == {ToolAccount, [ToolAccount EXCEPT !.appSecret = Undefined]}

\* execute: deposits the supplied tokens, then runs the action, which makes
\* one wrapper invocation, or two (the primary calendar is looked up first),
\* or none (an unknown action: an error result). The segment ends at the
\* first network request.
\* Mutant: the first acquisition reads the cache as it was before the deposit.
Execute_AcquiresFirst(t) ==
    /\ ~Busy(t)
    /\ \E withRefresh \in BOOLEAN, wrapperCalls \in {0, 1, 2} :
          /\ tokenStore' = storeUserToken(tokenStore, account.accountId,
                                UserTok(userPair),
                                IF withRefresh THEN Some(RefreshTok(userPair))
                                               ELSE Undefined,
                                Undefined)
          /\ task' = [task EXCEPT ![t] =
                IF wrapperCalls = 0
                THEN [IdleTask EXCEPT !.pc = "done", !.caller = "first",
                                      !.key = storeKey(account.accountId),
                                      !.toolResult = "error"]
                ELSE GetUserAccessTokenStart(tokenStore, appTokenCache,
                        [IdleTask EXCEPT !.caller = "first",
                                         !.remaining = wrapperCalls - 1],
                        account.accountId, account)]
    /\ UNCHANGED <<appTokenCache, now, issued, liveRT, consumed, account, userPair>>

Execute(t) ==
    /\ ~Busy(t)
    /\ \E withRefresh \in BOOLEAN, wrapperCalls \in {0, 1, 2} :
          /\ tokenStore' = storeUserToken(tokenStore, account.accountId,
                                UserTok(userPair),
                                IF withRefresh THEN Some(RefreshTok(userPair))
                                               ELSE Undefined,
                                Undefined)
          /\ task' = [task EXCEPT ![t] =
                IF wrapperCalls = 0
                THEN [IdleTask EXCEPT !.pc = "done", !.caller = "first",
                                      !.key = storeKey(account.accountId),
                                      !.toolResult = "error"]
                ELSE GetUserAccessTokenStart(tokenStore', appTokenCache,
                        [IdleTask EXCEPT !.caller = "first",
                                         !.remaining = wrapperCalls - 1],
                        account.accountId, account)]
    /\ UNCHANGED <<appTokenCache, now, issued, liveRT, consumed, account, userPair>>

\* Mutant: an "expired" code on the retry is retried again.
BusinessResponse_RetriesAgain(t) ==
    /\ task[t].pc = "bizSent"
    /\ \/ \E code \in BusinessCodes :
            IF code = 0
            THEN \* the wrapper returns; execute goes on or returns the result
                 /\ task' = [task EXCEPT ![t] =
                        IF @.remaining > 0
                        THEN GetUserAccessTokenStart(tokenStore, appTokenCache,
                                [@ EXCEPT !.caller = "first", !.bizCalls = 0,
                                          !.bearer = NoToken, !.bizCode = NoCode,
                                          !.remaining = @ - 1],
                                account.accountId, account)
                        ELSE [@ EXCEPT !.pc = "done", !.bearer = NoToken,
                                       !.bizCode = code, !.toolResult = "ok"]]
                 /\ UNCHANGED tokenStore
            ELSE IF isUserTokenExpiredCode(code)
            THEN \* catch in the wrapper: invalidate, acquire again, retry once
                 /\ tokenStore' = invalidateUserToken(tokenStore, account.accountId)
                 /\ task' = [task EXCEPT ![t] =
                        GetUserAccessTokenStart(tokenStore', appTokenCache,
                            [@ EXCEPT !.caller = "retry", !.bearer = NoToken,
                                      !.bizCode = code],
                            account.accountId, account)]
            ELSE \* the error reaches execute's catch block
                 /\ task' = [task EXCEPT ![t] =
                        [@ EXCEPT !.pc = "done", !.bearer = NoToken,
                                  !.bizCode = code,
                                  !.toolResult =
                                     IF isUserTokenExpiredCode(code)
                                     THEN "token_expired" ELSE "error"]]
                 /\ UNCHANGED tokenStore
       \/ \* the transport fails, or the answer lacks what the action needs
          \* (no primary calendar): an Error reaches execute's catch block
          /\ task' = [task EXCEPT ![t] =
                        [@ EXCEPT !.pc = "done", !.bearer = NoToken,
                                  !.bizCode = NoCode, !.toolResult = "error"]]
          /\ UNCHANGED tokenStore
    /\ UNCHANGED <<appTokenCache, now, issued, liveRT, consumed, account, userPair>>

\* The business API answers (or the transport fails); feishuRequest resumes.
BusinessResponse(t) ==
    /\ task[t].pc = "bizSent"
    /\ \/ \E code \in BusinessCodes :
            IF code = 0
            THEN \* the wrapper returns; execute goes on or returns the result
                 /\ task' = [task EXCEPT ![t] =
                        IF @.remaining > 0
                        THEN GetUserAccessTokenStart(tokenStore, appTokenCache,
                                [@ EXCEPT !.caller = "first", !.bizCalls = 0,
                                          !.bearer = NoToken, !.bizCode = NoCode,
                                          !.remaining = @ - 1],
                                account.accountId, account)
                        ELSE [@ EXCEPT !.pc = "done", !.bearer = NoToken,
                                       !.bizCode = code, !.toolResult = "ok"]]
                 /\ UNCHANGED tokenStore
            ELSE IF isUserTokenExpiredCode(code) /\ task[t].caller = "first"
            THEN \* catch in the wrapper: invalidate, acquire again, retry once
                 /\ tokenStore' = invalidateUserToken(tokenStore, account.accountId)
                 /\ task' = [task EXCEPT ![t] =
                        GetUserAccessTokenStart(tokenStore', appTokenCache,
                            [@ EXCEPT !.caller = "retry", !.bearer = NoToken,
                                      !.bizCode = code],
                            account.accountId, account)]
            ELSE \* the error reaches execute's catch block
                 /\ task' = [task EXCEPT ![t] =
                        [@ EXCEPT !.pc = "done", !.bearer = NoToken,
                                  !.bizCode = code,
                                  !.toolResult =
                                     IF isUserTokenExpiredCode(code)
                                     THEN "token_expired" ELSE "error"]]
                 /\ UNCHANGED tokenStore
       \/ \* the transport fails, or the answer lacks what the action needs
          \* (no primary calendar): an Error reaches execute's catch block
          /\ task' = [task EXCEPT ![t] =
                        [@ EXCEPT !.pc = "done", !.bearer = NoToken,
                                  !.bizCode = NoCode, !.toolResult = "error"]]
          /\ UNCHANGED tokenStore
    /\ UNCHANGED <<appTokenCache, now, issued, liveRT, consumed, account, userPair>>

----------------------------------------------------------------------------
(* The library with direct callers, who deposit the pair the user holds. *)

Init ==
    /\ tokenStore = EmptyMap
    /\ appTokenCache = EmptyMap
    /\ now = StartTime
    /\ task = [t \in Tasks |-> IdleTask]
    /\ issued = 1
    /\ liveRT = {RefreshTok(1)}
    /\ consumed = {}
    /\ account = ToolAccount
    /\ userPair = 1

Next ==
    \/ StoreUserToken(AccountIdInputs, StoreExpiresInInputs)
    \/ \E t \in Tasks : GetUserAccessToken(t, AccountIdInputs, CredsInputs)
    \/ \E t \in Tasks : AppTokenResponse(t)
    \/ \E t \in Tasks : IssuerRefresh(t)
    \/ \E t \in Tasks : RefreshResponse(t)
    \/ InvalidateUserToken(AccountIdInputs)
    \/ ClearUserToken(AccountIdInputs)
    \/ Tick(ClockValues)

Spec == Init /\ [][Next]_vars

(* The tool: concurrent invocations of execute. *)

InitTool ==
    /\ tokenStore = EmptyMap
    /\ appTokenCache = EmptyMap
    /\ now = StartTime
    /\ task = [t \in Tasks |-> IdleTask]
    /\ issued = 1
    /\ liveRT = {RefreshTok(1)}
    /\ consumed = {}
    /\ account \in ToolAccountInputs
    /\ userPair = 1

NextTool ==
    \/ \E t \in Tasks : Execute(t)
    \/ \E t \in Tasks : AppTokenResponse(t)
    \/ \E t \in Tasks : IssuerRefresh(t)
    \/ \E t \in Tasks : RefreshResponse(t)
    \/ \E t \in Tasks : BusinessResponse(t)
    \/ IssueOutOfBand
    \/ Tick(ClockValues)

SpecTool == InitTool /\ [][NextTool]_vars

(* The tool, one invocation of execute at a time. *)

NextToolSeq ==
    \/ Execute("t1")
    \/ AppTokenResponse("t1")
    \/ IssuerRefresh("t1")
    \/ RefreshResponse("t1")
    \/ BusinessResponse("t1")
    \/ IssueOutOfBand
    \/ Tick(ClockValues)

SpecToolSeq == InitTool /\ [][NextToolSeq]_vars

(* The same, with every request in flight eventually answered: fetch() *)
(* settles, by a response or by a rejection, and the awaiting code resumes. *)

FairToolSeq ==
    /\ SpecToolSeq
    /\ WF_vars(AppTokenResponse("t1"))
    /\ WF_vars(IssuerRefresh("t1"))
    /\ WF_vars(RefreshResponse("t1"))
    /\ WF_vars(BusinessResponse("t1"))

(* The store with two account keys; one caller at a time. *)

\* accountId of the store operations: omitted, "default" spelled out (the
\* same key), or another account.
KeyedAccountIdInputs == {Undefined, Some("default"), Some("acct1")}

\* The application credentials are configured.
ConfiguredCreds ==
    {c \in CredsInputs : c.appId # Undefined /\ c.appSecret # Undefined}

NextStore ==
    \/ StoreUserToken(KeyedAccountIdInputs, StoreExpiresInInputs)
    \/ GetUserAccessToken("t1", KeyedAccountIdInputs, ConfiguredCreds)
    \/ AppTokenResponse("t1")
    \/ IssuerRefresh("t1")
    \/ RefreshResponse("t1")
    \/ InvalidateUserToken(KeyedAccountIdInputs)
    \/ ClearUserToken(KeyedAccountIdInputs)
    \/ Tick(ClockValues)

SpecStore == Init /\ [][NextStore]_vars

(* One key, with supplied lifetimes and a clock that also stops one *)
(* millisecond before each expiry. *)

\* expiresIn of storeUserToken: omitted (6900), or 7200.
SuppliedExpiresInInputs == {Undefined, Some(7200)}

\* The clock values of ClockValues, and the millisecond before each of them.
FineClockValues == ClockValues \cup {v - 1 : v \in ClockValues \ {StartTime}}

NextClock ==
    \/ StoreUserToken(AccountIdInputs, SuppliedExpiresInInputs)
    \/ GetUserAccessToken("t1", AccountIdInputs, ConfiguredCreds)
    \/ AppTokenResponse("t1")
    \/ IssuerRefresh("t1")
    \/ RefreshResponse("t1")
    \/ Tick(FineClockValues)

SpecClock == Init /\ [][NextClock]_vars

(* The library with the account of the call and the account of the *)
(* credentials chosen independently; one caller at a time. *)

\* accountId of the call: omitted, or another account.
CallAccountIdInputs == {Undefined, Some("acct1")}

\* creds of the call: configured, with creds.accountId omitted or "acct1".
KeyedCredsInputs ==
    { [c EXCEPT !.accountId = a] :
        c \in ConfiguredCreds, a \in CallAccountIdInputs }

NextAppKeys ==
    \/ StoreUserToken(CallAccountIdInputs, StoreExpiresInInputs)
    \/ GetUserAccessToken("t1", CallAccountIdInputs, KeyedCredsInputs)
    \/ AppTokenResponse("t1")
    \/ IssuerRefresh("t1")
    \/ RefreshResponse("t1")
    \/ InvalidateUserToken(CallAccountIdInputs)

SpecAppKeys == Init /\ [][NextAppKeys]_vars

----------------------------------------------------------------------------
(* Properties. *)

\* A refresh exchange of task t is in flight (request sent, reply not yet handled).
RefreshInFlight(t) == task[t].pc \in {"refreshSent", "refreshReplied"}

\* In this step task t, a direct caller of the library, calls getUserAccessToken.
CallStep(t) == task[t].pc \in {"idle", "done"} /\ task'[t] # task[t]

\* The call of this step returned at once, without a network request.
ReturnedAtOnce(t) ==
    /\ task'[t].pc = "done"
    /\ task'[t].appCalls = 0
    /\ task'[t].refreshCalls = 0

CachesUnchanged == tokenStore' = tokenStore /\ appTokenCache' = appTokenCache

\* C1: refresh is serialized per account key: no two getUserAccessToken
\* invocations have a refresh exchange in flight for the same key at once.
C1_RefreshSerialized ==
    \A t1, t2 \in Tasks :
        (t1 # t2 /\ RefreshInFlight(t1) /\ RefreshInFlight(t2))
            => task[t1].key # task[t2].key

\* C2 (P1, freshness): a call on a key whose entry has now < expiresAt returns
\* the cached access token with refreshed = false, sends no request to either
\* issuer endpoint and leaves both caches unchanged.
C2_Freshness ==
    [][\A t \in Tasks :
          (/\ CallStep(t)
           /\ task'[t].key \in DOMAIN tokenStore
           /\ now < tokenStore[task'[t].key].expiresAt)
          => /\ task'[t].result =
                    Ok(tokenStore[task'[t].key].userAccessToken, FALSE)
             /\ ReturnedAtOnce(t)
             /\ CachesUnchanged]_vars

\* A fresh entry that has a refresh token was returned as it is.
C2_Witness ==
    \E t \in Tasks :
        /\ task[t].pc = "done"
        /\ task[t].result.kind = "ok"
        /\ ~task[t].result.refreshed
        /\ task[t].key \in DOMAIN tokenStore
        /\ now < tokenStore[task[t].key].expiresAt
        /\ tokenStore[task[t].key].refreshToken # Undefined
        /\ task[t].result.token = tokenStore[task[t].key].userAccessToken
        /\ task[t].appCalls = 0 /\ task[t].refreshCalls = 0

\* C3 (P2, lazy renewal): a call on an entry with now >= expiresAt that has a
\* refresh token sends exactly that refresh token to the issuer (when the
\* application credentials are usable), and when the issuer accepts it the
\* call returns the issuer's new access token with refreshed = true and the
\* entry becomes the new access token, the new refresh token and
\* expiresAt = time of the write + issuer TTL * 1000 - 300000.
C3_LazyRenewal ==
    [][\A t \in Tasks :
          /\ (/\ CallStep(t)
               /\ task'[t].key \in DOMAIN tokenStore
               /\ now >= tokenStore[task'[t].key].expiresAt
               /\ tokenStore[task'[t].key].refreshToken # Undefined
               /\ task'[t].result # NotConfiguredOutcome)
              => /\ task'[t].pc \in {"appSent", "refreshSent"}
                 /\ task'[t].refreshToken = tokenStore[task'[t].key].refreshToken[1]
          /\ (/\ task[t].pc = "refreshReplied"
               /\ task[t].reply.kind = "json"
               /\ task[t].reply.code = 0
               /\ task'[t] # task[t])
              => /\ task'[t].pc = "done"
                 /\ task'[t].result = Ok(task[t].reply.access_token, TRUE)
                 /\ task[t].key \in DOMAIN tokenStore'
                 /\ tokenStore'[task[t].key] =
                       [userAccessToken |-> task[t].reply.access_token,
                        refreshToken |-> Some(task[t].reply.refresh_token),
                        expiresAt |->
                           now + OrDefault(task[t].reply.expires_in, 6900) * 1000
                               - 300000]]_vars

\* A renewal completed: the entry holds the pair the issuer just issued.
C3_Witness ==
    \E t \in Tasks, n \in 2..MaxIssued :
        /\ task[t].pc = "done"
        /\ task[t].result = Ok(UserTok(n), TRUE)
        /\ task[t].refreshCalls = 1
        /\ task[t].key \in DOMAIN tokenStore
        /\ tokenStore[task[t].key] =
              [userAccessToken |-> UserTok(n), refreshToken |-> Some(RefreshTok(n)),
               expiresAt |-> now + 6600000]

\* C4 (P3, unrenewable terminal): a call on an entry with now >= expiresAt and
\* no refresh token fails with UserTokenExpiredError, sends no request and
\* leaves both caches unchanged.
C4_Unrenewable ==
    [][\A t \in Tasks :
          (/\ CallStep(t)
           /\ task'[t].key \in DOMAIN tokenStore
           /\ now >= tokenStore[task'[t].key].expiresAt
           /\ tokenStore[task'[t].key].refreshToken = Undefined)
          => /\ task'[t].result.kind = "UserTokenExpiredError"
             /\ ReturnedAtOnce(t)
             /\ CachesUnchanged]_vars

\* A call failed on a stale entry without refresh token.
C4_Witness ==
    \E t \in Tasks :
        /\ task[t].pc = "done"
        /\ task[t].result.kind = "UserTokenExpiredError"
        /\ task[t].appCalls = 0 /\ task[t].refreshCalls = 0
        /\ task[t].key \in DOMAIN tokenStore
        /\ now >= tokenStore[task[t].key].expiresAt
        /\ tokenStore[task[t].key].refreshToken = Undefined

\* C5 (P4, missing terminal): a call on a key with no entry fails with
\* UserTokenNotFoundError, sends no request and leaves both caches as they
\* are (no entry is created).
C5_Missing ==
    [][\A t \in Tasks :
          (/\ CallStep(t)
           /\ task'[t].key \notin DOMAIN tokenStore)
          => /\ task'[t].result.kind = "UserTokenNotFoundError"
             /\ ReturnedAtOnce(t)
             /\ CachesUnchanged
             /\ DOMAIN tokenStore' = DOMAIN tokenStore
             /\ DOMAIN appTokenCache' = DOMAIN appTokenCache]_vars

\* A call failed on a key with no entry, while the application-token cache
\* holds an entry (so "no network call" is not for want of a reason to call).
C5_Witness ==
    \E t \in Tasks :
        /\ task[t].pc = "done"
        /\ task[t].result.kind = "UserTokenNotFoundError"
        /\ task[t].appCalls = 0 /\ task[t].refreshCalls = 0
        /\ task[t].key \notin DOMAIN tokenStore
        /\ DOMAIN appTokenCache # {}

\* C6: with a single-use rotating refresh token, every refresh exchange of
\* the tool sends a refresh token the issuer has not yet consumed (the most
\* recently issued one), also when later invocations of execute carry the
\* originally supplied tokens again.
C6_RefreshSendsLatest ==
    \A t \in Tasks :
        task[t].pc = "refreshSent" => task[t].refreshToken \notin consumed

\* The reply of the refresh endpoint that task t is about to handle is an
\* accepted exchange.
AcceptedReply(t) ==
    /\ task[t].pc = "refreshReplied"
    /\ task[t].reply.kind = "json"
    /\ task[t].reply.code = 0

\* C7: a getUserAccessToken invocation that fails on the renewal path leaves
\* the user-token cache as it is: the failing step (refresh rejected,
\* application-token step failed, transport error, credentials missing), and
\* every earlier step of the invocation, neither deletes nor modifies an entry.
C7_FailureKeepsEntry ==
    [][\A t \in Tasks :
          (task'[t] # task[t] /\ ~AcceptedReply(t)) => tokenStore' = tokenStore]_vars

\* A renewal failed after its refresh request, and the stale entry with its
\* refresh token is still there.
C7_Witness ==
    \E t \in Tasks :
        /\ task[t].pc = "done"
        /\ task[t].result.kind \in {"UserTokenExpiredError", "TransportError"}
        /\ task[t].refreshCalls = 1
        /\ task[t].key \in DOMAIN tokenStore
        /\ now >= tokenStore[task[t].key].expiresAt
        /\ tokenStore[task[t].key].refreshToken # Undefined

\* C8: a call on an expired entry with a refresh token, made with the
\* application identifier or secret absent, fails with an outcome that is
\* neither UserTokenExpiredError nor UserTokenNotFoundError, sends no request
\* and leaves both caches unchanged.
C8_ConfigurationError ==
    [][\A t \in Tasks :
          CallStep(t) =>
            \A a \in AccountIdInputs, c \in CredsInputs :
              (/\ storeKey(a) \in DOMAIN tokenStore
               /\ now >= tokenStore[storeKey(a)].expiresAt
               /\ tokenStore[storeKey(a)].refreshToken # Undefined
               /\ (c.appId = Undefined \/ c.appSecret = Undefined)
               /\ task'[t] = GetUserAccessTokenStart(tokenStore, appTokenCache,
                                                     IdleTask, a, c))
              => /\ task'[t].result.kind \notin
                        {"ok", "none", "UserTokenExpiredError",
                         "UserTokenNotFoundError"}
                 /\ ReturnedAtOnce(t)
                 /\ CachesUnchanged]_vars

\* A call failed for want of credentials on a renewable stale entry, although
\* the application-token cache held a usable token.
C8_Witness ==
    \E t \in Tasks :
        /\ task[t].pc = "done"
        /\ task[t].result = NotConfiguredOutcome
        /\ task[t].appCalls = 0 /\ task[t].refreshCalls = 0
        /\ task[t].key \in DOMAIN tokenStore
        /\ now >= tokenStore[task[t].key].expiresAt
        /\ tokenStore[task[t].key].refreshToken # Undefined
        /\ "default" \in DOMAIN appTokenCache
        /\ appTokenCache["default"].expiresAt > now

\* C9: every non-zero code of the refresh endpoint, whatever its value, makes
\* getUserAccessToken fail with UserTokenExpiredError.
C9_RejectionIsExpired ==
    [][\A t \in Tasks :
          (/\ task[t].pc = "refreshReplied"
           /\ task[t].reply.kind = "json"
           /\ task[t].reply.code # 0
           /\ task'[t] # task[t])
          => /\ task'[t].pc = "done"
             /\ task'[t].result.kind = "UserTokenExpiredError"]_vars

\* Two invocations failed on a rejected refresh; the issuer answers with
\* codes inside and outside the business API's "expired" codes.
C9_Witness ==
    /\ \E c \in RefreshErrorCodes : c \in USER_TOKEN_EXPIRED_CODES
    /\ \E c \in RefreshErrorCodes : c \notin USER_TOKEN_EXPIRED_CODES
    /\ \E t \in Tasks :
          /\ task[t].pc = "done"
          /\ task[t].refreshCalls = 1
          /\ task[t].result.kind = "UserTokenExpiredError"

\* C10: one getUserAccessToken invocation sends at most one request to the
\* refresh endpoint and at most one to the application-token endpoint,
\* whatever their outcome.
C10_AtMostOneCall ==
    \A t \in Tasks : task[t].refreshCalls <= 1 /\ task[t].appCalls <= 1

\* An invocation that used both endpoints once failed, and did not try again.
C10_Witness ==
    \E t \in Tasks :
        /\ task[t].pc = "done"
        /\ task[t].result.kind # "ok"
        /\ task[t].refreshCalls = 1
        /\ task[t].appCalls = 1

\* In this step feishuRequest of task t reads a business response.
BusinessStep(t) == task[t].pc = "bizSent" /\ task'[t] # task[t]

\* C11 (retry exactly once): when the first business call of a wrapper
\* invocation returns one of the codes 99991663..99991665, the same step sets
\* the entry's expiresAt to 0 and starts a second acquisition on the expired
\* entry; a business request always carries the token of the acquisition
\* before it; the response to the retry never starts another acquisition of
\* the same invocation, whatever it is; an invocation sends at most two
\* business requests, and every started invocation of execute comes to an end.
C11_RetryOnce ==
    /\ [][\A t \in Tasks :
            BusinessStep(t) =>
              LET k == task[t].key
                  first == task[t].caller = "first"
                  expired == task'[t].bizCode \in {99991663, 99991664, 99991665}
              IN  /\ (first /\ expired)
                       => /\ task'[t].caller = "retry"
                          /\ task'[t].bizCalls = 1
                          /\ k \in DOMAIN tokenStore /\ k \in DOMAIN tokenStore'
                          /\ tokenStore'[k].expiresAt = 0
                          /\ task'[t].result.kind # "ok"
                          /\ task'[t].result.kind = "none"
                                => task'[t].pc \in {"appSent", "refreshSent"}
                  /\ ~(first /\ expired)
                       => /\ tokenStore' = tokenStore
                          /\ \/ task'[t].pc = "done"
                             \/ /\ task[t].remaining > 0
                                /\ task'[t].bizCode = -1
                                /\ task'[t].caller = "first"
                                /\ task'[t].remaining = task[t].remaining - 1]_vars
    /\ [](\A t \in Tasks :
            /\ task[t].bizCalls <= 2
            /\ task[t].pc = "bizSent"
                 => /\ task[t].result.kind = "ok"
                    /\ task[t].bearer = task[t].result.token
                    /\ task[t].caller = "retry" => task[t].bizCalls = 2)
    /\ \A t \in Tasks : Busy(t) ~> ~Busy(t)

\* The retry was made with the token of a renewal, failed with an "expired"
\* code again, and the invocation ended there.
C11_Witness ==
    \E t \in Tasks :
        /\ task[t].pc = "done"
        /\ task[t].caller = "retry"
        /\ task[t].bizCalls = 2
        /\ task[t].result.kind = "ok" /\ task[t].result.refreshed
        /\ task[t].bizCode \in {99991663, 99991664, 99991665}
        /\ task[t].toolResult = "token_expired"

\* C12 (P6, forced expiry keeps the refresh token): invalidateUserToken on an
\* entry that has a refresh token leaves an entry with expiresAt = 0 and the
\* same refresh token, also when the entry was still fresh; a call on such an
\* entry never fails with UserTokenNotFoundError and (the application
\* credentials being configured) sends exactly the stored refresh token, in
\* one refresh exchange; when the issuer accepts it the call returns
\* refreshed = true.
C12_ForcedExpiryRenews ==
    [][/\ (/\ tokenStore' # tokenStore
           /\ task' = task
           /\ InvalidateUserToken(AccountIdInputs))
          => \A k \in DOMAIN tokenStore :
                tokenStore[k].refreshToken # Undefined
                => /\ k \in DOMAIN tokenStore'
                   /\ tokenStore'[k].expiresAt = 0
                   /\ tokenStore'[k].refreshToken = tokenStore[k].refreshToken
       /\ \A t \in Tasks :
            /\ (/\ CallStep(t)
                 /\ task'[t].key \in DOMAIN tokenStore
                 /\ tokenStore[task'[t].key].expiresAt = 0
                 /\ tokenStore[task'[t].key].refreshToken # Undefined)
                => /\ task'[t].result.kind \notin {"UserTokenNotFoundError", "ok"}
                   /\ task'[t].result # NotConfiguredOutcome
                        => /\ task'[t].pc \in {"appSent", "refreshSent"}
                           /\ task'[t].refreshToken =
                                 tokenStore[task'[t].key].refreshToken[1]
                           /\ task'[t].refreshCalls <= 1
            /\ (AcceptedReply(t) /\ task'[t] # task[t])
                => /\ task'[t].result = Ok(task[t].reply.access_token, TRUE)
                   /\ task'[t].refreshCalls = 1]_vars

\* A renewal succeeded before any time had passed: the deposited entry was
\* still fresh, so only the forced expiry can have sent the call down the
\* renewal path.
C12_Witness ==
    \E t \in Tasks :
        /\ now = StartTime
        /\ task[t].pc = "done"
        /\ task[t].result = Ok(UserTok(2), TRUE)
        /\ task[t].refreshCalls = 1
        /\ RefreshTok(1) \in consumed

\* The key an accountId argument addresses.
KeyOf(a) == IF a = Undefined THEN "default" ELSE a[1]

\* C13: invalidateUserToken, on every reachable cache and for every accountId,
\* changes nothing but the expiresAt of the entry at its key, which becomes
\* 0: the key set is the same (no entry is created for a key without one, and
\* the cache is then unchanged), the access and refresh token of the entry are
\* the same, every other entry is the same, and hasUserToken answers the
\* same for every key. Every InvalidateUserToken step has this effect.
C13_InvalidateFrame ==
    /\ [](\A a \in KeyedAccountIdInputs :
            LET after == invalidateUserToken(tokenStore, a)
            IN  /\ DOMAIN after = DOMAIN tokenStore
                /\ \A x \in DOMAIN tokenStore :
                      after[x] =
                        IF x = KeyOf(a)
                        THEN [userAccessToken |-> tokenStore[x].userAccessToken,
                              refreshToken |-> tokenStore[x].refreshToken,
                              expiresAt |-> 0]
                        ELSE tokenStore[x]
                /\ KeyOf(a) \notin DOMAIN tokenStore => after = tokenStore
                /\ \A b \in KeyedAccountIdInputs :
                      hasUserToken(after, b) = hasUserToken(tokenStore, b))
    /\ [][InvalidateUserToken(KeyedAccountIdInputs)
            => /\ DOMAIN tokenStore' = DOMAIN tokenStore
               /\ \A x \in DOMAIN tokenStore :
                     /\ tokenStore'[x].userAccessToken = tokenStore[x].userAccessToken
                     /\ tokenStore'[x].refreshToken = tokenStore[x].refreshToken
                     /\ tokenStore'[x].expiresAt \in {0, tokenStore[x].expiresAt}]_vars

\* One of two entries was invalidated: it has expiresAt = 0 and still both of
\* its tokens, while the entry of the other key is fresh.
C13_Witness ==
    /\ DOMAIN tokenStore = {"default", "acct1"}
    /\ tokenStore["acct1"].expiresAt = 0
    /\ tokenStore["acct1"].userAccessToken = UserTok(1)
    /\ tokenStore["acct1"].refreshToken = Some(RefreshTok(1))
    /\ tokenStore["default"].expiresAt > now

\* C14 (P5, buffer correctness): every write of an expiry is
\* time of the write + T * 1000 - 300000 ms: T the supplied expiresIn (6900
\* when omitted) for storeUserToken, the issuer's expires_in (6900 when
\* absent) for the write after an accepted refresh, the issuer's expire (7200
\* when absent) for the application-token cache. A call on the entry
\* deposited at StartTime with T = 6900 returns the cached token exactly
\* while less than 6600 seconds have passed since StartTime.
C14_BufferCorrect ==
    [][/\ \A a \in AccountIdInputs, r \in {Undefined, Some(RefreshTok(userPair))},
             e \in SuppliedExpiresInInputs :
            (/\ task' = task
             /\ tokenStore' = storeUserToken(tokenStore, a, UserTok(userPair), r, e))
            => tokenStore'[KeyOf(a)].expiresAt =
                  now + (IF e = Undefined THEN 6900 ELSE e[1]) * 1000 - 300000
       /\ \A t \in Tasks :
            /\ (AcceptedReply(t) /\ task'[t] # task[t])
                => tokenStore'[task[t].key].expiresAt =
                      now + (IF task[t].reply.expires_in = Undefined
                             THEN 6900 ELSE task[t].reply.expires_in[1]) * 1000
                          - 300000
            /\ \A reply \in AppReplies :
                  (/\ task[t].pc = "appSent"
                   /\ reply.kind = "json" /\ reply.code = 0
                   /\ task'[t].pc = "refreshSent"
                   /\ appTokenCache' =
                         MapSet(appTokenCache, task[t].appKey, AppCacheEntry(reply)))
                  => appTokenCache'[task[t].appKey].expiresAt =
                        now + (IF reply.expire = Undefined
                               THEN 7200 ELSE reply.expire[1]) * 1000 - 300000
            /\ (/\ CallStep(t)
                 /\ task'[t].key \in DOMAIN tokenStore
                 /\ tokenStore[task'[t].key].expiresAt = StartTime + 6600 * 1000)
                => ((task'[t].result =
                        Ok(tokenStore[task'[t].key].userAccessToken, FALSE))
                    <=> (now - StartTime < 6600 * 1000))]_vars

\* Exactly 6600 seconds after the deposit at StartTime (T = 6900, no refresh
\* token) the call finds the entry expired.
C14_Witness ==
    \E t \in Tasks :
        /\ now = StartTime + 6600 * 1000
        /\ task[t].pc = "done"
        /\ task[t].result.kind = "UserTokenExpiredError"
        /\ task[t].key \in DOMAIN tokenStore
        /\ tokenStore[task[t].key] =
              [userAccessToken |-> UserTok(1), refreshToken |-> Undefined,
               expiresAt |-> StartTime + 6600 * 1000]

\* C15: storeUserToken, on every reachable cache and for every input, yields
\* a cache with one entry per key in which the entry of the effective key is
\* exactly the deposit (its access token, its refresh token or none, and
\* expiresAt = now + 6900 * 1000 - 300000 for the default lifetime) and every
\* other entry is as before; every deposit step leaves at its key the refresh
\* token of the deposit, none if none was supplied, whatever was there.
C15_DepositReplaces ==
    /\ [](\A a \in KeyedAccountIdInputs,
             r \in {Undefined, Some(RefreshTok(userPair))},
             e \in StoreExpiresInInputs :
            LET after == storeUserToken(tokenStore, a, UserTok(userPair), r, e)
            IN  /\ DOMAIN after = DOMAIN tokenStore \cup {KeyOf(a)}
                /\ after[KeyOf(a)] =
                      [userAccessToken |-> UserTok(userPair),
                       refreshToken |-> r,
                       expiresAt |-> now + (IF e = Undefined THEN 6900 ELSE e[1]) * 1000
                                         - 300000]
                /\ \A x \in DOMAIN tokenStore \ {KeyOf(a)} : after[x] = tokenStore[x])
    /\ [][\A a \in KeyedAccountIdInputs,
             r \in {Undefined, Some(RefreshTok(userPair))},
             e \in StoreExpiresInInputs :
            (/\ task' = task
             /\ tokenStore' = storeUserToken(tokenStore, a, UserTok(userPair), r, e))
            => /\ KeyOf(a) \in DOMAIN tokenStore'
               /\ tokenStore'[KeyOf(a)].userAccessToken = UserTok(userPair)
               /\ tokenStore'[KeyOf(a)].refreshToken = r]_vars

\* An entry that a renewal had filled with the issuer's new pair was
\* replaced by a deposit without refresh token: it has none now.
C15_Witness ==
    \E t \in Tasks :
        /\ task[t].pc = "done"
        /\ task[t].result = Ok(UserTok(2), TRUE)
        /\ task[t].key \in DOMAIN tokenStore
        /\ tokenStore[task[t].key] =
              [userAccessToken |-> UserTok(1), refreshToken |-> Undefined,
               expiresAt |-> now + 6600 * 1000]
        /\ DOMAIN tokenStore = {"default", "acct1"}

\* C16 (P7, idempotent clear): on every reachable cache, clearUserToken for a
\* key without entry returns the cache as it is; for a key with an entry it
\* removes that entry and no other, and changes no other; without accountId
\* it leaves hasUserToken false for every key; and clearing a second time with
\* the same argument gives what the first clearing gave.
C16_ClearIdempotent ==
    \A a \in KeyedAccountIdInputs :
        LET once == clearUserToken(tokenStore, a)
            twice == clearUserToken(once, a)
        IN  /\ twice = once
            /\ (a # Undefined /\ KeyOf(a) \notin DOMAIN tokenStore)
                 => once = tokenStore
            /\ (a # Undefined /\ KeyOf(a) \in DOMAIN tokenStore)
                 => /\ DOMAIN once = DOMAIN tokenStore \ {KeyOf(a)}
                    /\ \A x \in DOMAIN once : once[x] = tokenStore[x]
            /\ a = Undefined
                 => /\ DOMAIN once = {}
                    /\ \A b \in KeyedAccountIdInputs : ~hasUserToken(once, b)

\* The entry of "acct1", which a call had returned, was cleared, and the
\* entry of "default" is still there.
C16_Witness ==
    \E t \in Tasks :
        /\ task[t].pc = "done"
        /\ task[t].key = "acct1"
        /\ task[t].result.kind = "ok"
        /\ DOMAIN tokenStore = {"default"}

\* C17: isUserTokenExpiredCode is true for 99991663, 99991664 and 99991665
\* and false for every other code the business API answers with (0, the two
\* neighbours of the three, another error code); it is a function of the code
\* alone. In use: the wrapper starts its retry after the first business
\* response exactly for those three codes, and a failing business response
\* that itself ends the invocation (no retry is started) is reported as
\* token_expired exactly for them.
C17_ExpiredCodeTable ==
    /\ [](\A c \in BusinessCodes \cup {-1, 20037, 10003} :
            isUserTokenExpiredCode(c) <=>
                (c = 99991663 \/ c = 99991664 \/ c = 99991665))
    /\ [][\A t \in Tasks :
            BusinessStep(t) =>
              LET c == task'[t].bizCode
                  inTable == c = 99991663 \/ c = 99991664 \/ c = 99991665
              IN  /\ task[t].caller = "first"
                       => (task'[t].caller = "retry" <=> inTable)
                  /\ (/\ task'[t].pc = "done" /\ c # 0 /\ c # -1
                      /\ task'[t].caller = task[t].caller)
                       => (task'[t].toolResult = "token_expired" <=> inTable)]_vars

\* The first business response carried a code of the table (the wrapper
\* retried), the response to the retry carried the neighbour 99991662 of the
\* table, which is no "expired" code: a plain error.
C17_Witness ==
    \E t \in Tasks :
        /\ task[t].pc = "done"
        /\ task[t].caller = "retry"
        /\ task[t].bizCalls = 2
        /\ task[t].bizCode = 99991662
        /\ task[t].toolResult = "error"

\* C18: every invocation of execute ends with a result (it never throws):
\* "ok", or an error result, which carries token_expired exactly when the
\* failure was UserTokenExpiredError or UserTokenNotFoundError: raised by the
\* last acquisition, or by feishuRequest on one of the codes
\* 99991663..99991665 when no retry is left. A configuration error, an
\* application-token failure, a transport error, another API code and an
\* unknown action give a plain error. The invocation that ended has sent at
\* most one refresh request per acquisition and two business requests.
C18_ToolResult ==
    \A t \in Tasks :
        (task[t].pc = "done" /\ task[t].caller # "api")
        => LET res == task[t].result
               c == task[t].bizCode
               tokenError ==
                   \/ res.kind \in {"UserTokenExpiredError", "UserTokenNotFoundError"}
                   \/ /\ res.kind = "ok"
                      /\ (c = 99991663 \/ c = 99991664 \/ c = 99991665)
               succeeded == res.kind = "ok" /\ c = 0
           IN  /\ task[t].toolResult \in {"ok", "error", "token_expired"}
               /\ task[t].toolResult = "ok" <=> succeeded
               /\ task[t].toolResult = "token_expired" <=> tokenError
               /\ task[t].toolResult = "error" <=> (~succeeded /\ ~tokenError)
               /\ task[t].refreshCalls <= 1
               /\ task[t].bizCalls <= 2

\* The retry's acquisition found the entry without refresh token:
\* UserTokenExpiredError, reported with token_expired.
C18_Witness ==
    \E t \in Tasks :
        /\ task[t].pc = "done"
        /\ task[t].caller = "retry"
        /\ task[t].result.kind = "UserTokenExpiredError"
        /\ task[t].refreshCalls = 0
        /\ task[t].bizCalls = 1
        /\ task[t].toolResult = "token_expired"

\* In this step a getUserAccessToken invocation of task t returns or throws.
SettleStep(t) ==
    /\ task'[t] # task[t]
    /\ task'[t].result # NoResult
    /\ \/ task[t].pc \in {"idle", "done"}
       \/ task[t].result = NoResult

\* C19: a getUserAccessToken invocation succeeds in two ways only: in the
\* step of the call, with the access token of the entry of its key, whose
\* expiresAt is above now in that very step (refreshed = false); or in the
\* step that handles an accepted refresh reply of this invocation, with the
\* access token of that reply (refreshed = true). Every other way an
\* invocation settles is a failure, which carries no token.
C19_NeverStale ==
    [][\A t \in Tasks :
          SettleStep(t) =>
            \/ /\ task'[t].result.kind = "ok"
               /\ task[t].pc \in {"idle", "done"}
               /\ task'[t].key \in DOMAIN tokenStore
               /\ tokenStore[task'[t].key].expiresAt > now
               /\ task'[t].result.token = tokenStore[task'[t].key].userAccessToken
               /\ ~task'[t].result.refreshed
               /\ task'[t].refreshCalls = 0
            \/ /\ task'[t].result.kind = "ok"
               /\ AcceptedReply(t)
               /\ task'[t].result.token = task[t].reply.access_token
               /\ task[t].reply.access_token \in {UserTok(n) : n \in 2..issued}
               /\ task'[t].result.refreshed
               /\ task'[t].refreshCalls = 1
            \/ /\ task'[t].result.kind \in
                     {"UserTokenNotFoundError", "UserTokenExpiredError",
                      "Error", "TransportError"}
               /\ task'[t].result.token = NoToken]_vars

\* The entry is expired and has no refresh token, the call on it failed, and
\* the expired access token, still in the cache, was not handed out.
C19_Witness ==
    \E t \in Tasks :
        /\ task[t].pc = "done"
        /\ task[t].result.kind = "UserTokenExpiredError"
        /\ task[t].result.token = NoToken
        /\ task[t].key \in DOMAIN tokenStore
        /\ tokenStore[task[t].key].expiresAt <= now
        /\ tokenStore[task[t].key].expiresAt > 0
        /\ tokenStore[task[t].key].userAccessToken = UserTok(1)

\* The tokens the application-token cache holds.
CachedAppTokens == {appTokenCache[k].token : k \in DOMAIN appTokenCache}

\* C20: the token a getUserAccessToken invocation returned, and the bearer
\* of every business request, is a user access token and no token of the
\* application-token cache; the user-token cache holds user and refresh
\* tokens only; a task holds an application token only while its refresh
\* exchange is in flight.
C20_AppTokenConfined ==
    /\ \A t \in Tasks :
          /\ task[t].result.kind = "ok"
               => /\ task[t].result.token[1] = "u"
                  /\ task[t].result.token \notin CachedAppTokens
          /\ task[t].pc = "bizSent"
               => /\ task[t].bearer[1] = "u"
                  /\ task[t].bearer \notin CachedAppTokens
          /\ task[t].pc # "bizSent" => task[t].bearer = NoToken
          /\ task[t].appToken # NoToken
               => /\ task[t].appToken[1] = "a"
                  /\ task[t].pc \in {"refreshSent", "refreshReplied"}
    /\ \A k \in DOMAIN tokenStore :
          /\ tokenStore[k].userAccessToken[1] = "u"
          /\ tokenStore[k].refreshToken # Undefined
               => tokenStore[k].refreshToken[1][1] = "r"
    /\ \A k \in DOMAIN appTokenCache : appTokenCache[k].token[1] = "a"

\* A business request is in flight whose bearer is the user access token of
\* a renewal that was authorized with the cached application token.
C20_Witness ==
    \E t \in Tasks :
        /\ task[t].pc = "bizSent"
        /\ task[t].result = Ok(UserTok(2), TRUE)
        /\ task[t].bearer = UserTok(2)
        /\ task[t].appCalls = 1
        /\ CachedAppTokens = {AppTok(1)}

\* C21: a renewal whose application-token step is rejected by the issuer (a
\* non-zero code of the application-token endpoint; appId and appSecret are
\* present, no refresh request was sent) makes getUserAccessToken fail with
\* UserTokenExpiredError.
C21_AppStepFailureIsExpired ==
    \A t \in Tasks :
        (/\ task[t].pc = "done"
         /\ task[t].appCalls = 1
         /\ task[t].refreshCalls = 0
         /\ task[t].result.kind # "TransportError")
        => task[t].result.kind = "UserTokenExpiredError"

\* In this step task t starts a renewal: its call found an expired entry with
\* a refresh token, and the application credentials are configured.
RenewalStartStep(t) ==
    /\ CallStep(t)
    /\ task'[t].key \in DOMAIN tokenStore
    /\ now >= tokenStore[task'[t].key].expiresAt
    /\ tokenStore[task'[t].key].refreshToken # Undefined
    /\ task'[t].result # NotConfiguredOutcome

\* C22 (application-credential reuse): a renewal that starts while the
\* application-token cache holds an entry with expiresAt > now for the account
\* sends the refresh request at once, authorized with the cached token, and
\* no application-token request; a renewal that starts with the entry absent
\* or at or past its expiresAt sends one application-token request first; no
\* step other than the handling of a successful application-token response
\* changes the application-token cache.
C22_AppTokenReuse ==
    [][\A t \in Tasks :
          /\ RenewalStartStep(t) =>
               LET k == task'[t].appKey
                   usable == /\ k \in DOMAIN appTokenCache
                             /\ appTokenCache[k].expiresAt > now
               IN  /\ usable => /\ task'[t].pc = "refreshSent"
                                /\ task'[t].appCalls = 0
                                /\ task'[t].refreshCalls = 1
                                /\ task'[t].appToken = appTokenCache[k].token
                   /\ ~usable => /\ task'[t].pc = "appSent"
                                 /\ task'[t].appCalls = 1
                                 /\ task'[t].refreshCalls = 0
                   /\ appTokenCache' = appTokenCache
          /\ (appTokenCache' # appTokenCache /\ task'[t] # task[t])
               => /\ task[t].pc = "appSent"
                  /\ task'[t].pc = "refreshSent"]_vars

\* A second renewal is under way after a first one that succeeded: it sent
\* its refresh request without a request for an application token, which
\* the first had fetched and cached.
C22_Witness ==
    \E t \in Tasks :
        /\ task[t].pc = "refreshSent"
        /\ task[t].appCalls = 0
        /\ task[t].refreshToken = RefreshTok(2)
        /\ task[t].appToken = AppTok(1)
        /\ task[t].key \in DOMAIN tokenStore
        /\ tokenStore[task[t].key].userAccessToken = UserTok(2)

\* A renewal of task t is under way: between the read of the entry and the
\* handling of the refresh reply.
RenewalInFlight(t) == task[t].pc \in {"appSent", "refreshSent", "refreshReplied"}

\* C23 (as claimed): during every renewal, the application-token cache entry
\* read or written is under the same key as the user-token entry renewed.
C23_SameKey ==
    \A t \in Tasks : RenewalInFlight(t) => task[t].appKey = task[t].key

\* C23 (amended): both caches use the same key scheme, each on its own
\* argument: a renewal started by getUserAccessToken({accountId, creds})
\* renews the user entry under accountId, or "default" when it is omitted,
\* and reads and writes the application-token entry under creds.accountId, or
\* "default" when that is omitted; the two keys are the same when the two
\* identifiers are. The application-token response writes no other key of
\* the application-token cache, the renewal no other key of the user cache.
C23_KeysByArgument ==
    [][\A t \in Tasks :
          /\ CallStep(t) =>
               \A a \in CallAccountIdInputs, c \in KeyedCredsInputs :
                 (/\ task'[t] = GetUserAccessTokenStart(tokenStore, appTokenCache,
                                                       IdleTask, a, c)
                  /\ task'[t].pc \in {"appSent", "refreshSent"})
                 => /\ task'[t].key = KeyOf(a)
                    /\ task'[t].appKey = KeyOf(c.accountId)
                    /\ a = c.accountId => task'[t].appKey = task'[t].key
                    /\ task'[t].pc = "refreshSent"
                         => /\ KeyOf(c.accountId) \in DOMAIN appTokenCache
                            /\ task'[t].appToken =
                                  appTokenCache[KeyOf(c.accountId)].token
          /\ (task[t].pc = "appSent" /\ task'[t] # task[t])
               => /\ DOMAIN appTokenCache' \in
                        {DOMAIN appTokenCache,
                         DOMAIN appTokenCache \cup {task[t].appKey}}
                  /\ task'[t].pc = "refreshSent"
                        => /\ task[t].appKey \in DOMAIN appTokenCache'
                           /\ appTokenCache'[task[t].appKey].token = task'[t].appToken
                  /\ tokenStore' = tokenStore
                  /\ \A k \in DOMAIN appTokenCache \ {task[t].appKey} :
                        appTokenCache'[k] = appTokenCache[k]
          /\ (task[t].pc = "refreshReplied" /\ task'[t] # task[t])
               => /\ DOMAIN tokenStore' \in
                        {DOMAIN tokenStore, DOMAIN tokenStore \cup {task[t].key}}
                  /\ \A k \in DOMAIN tokenStore \ {task[t].key} :
                        tokenStore'[k] = tokenStore[k]
                  /\ appTokenCache' = appTokenCache]_vars

\* A renewal of the entry of "acct1" ended well with the application token
\* cached under "default" only: the call named the account, its creds did not.
C23_Witness ==
    \E t \in Tasks :
        /\ task[t].pc = "done"
        /\ task[t].key = "acct1"
        /\ task[t].result = Ok(UserTok(2), TRUE)
        /\ task[t].appCalls = 1
        /\ DOMAIN appTokenCache = {"default"}
        /\ "acct1" \in DOMAIN tokenStore
        /\ tokenStore["acct1"].userAccessToken = UserTok(2)

\* C24: while a renewal is in flight for a key, the entry of that key stays
\* the entry the renewal read: it is there, and its refresh token is the one
\* the renewal took from it (no deposit, forced expiry, clear or other
\* renewal takes effect on it before the renewal's own write).
C24_RenewalUndisturbed ==
    \A t \in Tasks :
        RenewalInFlight(t)
        => /\ task[t].key \in DOMAIN tokenStore
           /\ tokenStore[task[t].key].refreshToken = Some(task[t].refreshToken)
           /\ \A u \in Tasks \ {t} :
                RenewalInFlight(u) => task[u].key # task[t].key

\* C25 (partial progress of a renewal): the step that handles a successful
\* application-token response caches the token, under the account of the
\* credentials, in the very step that sends the refresh request, and leaves
\* the user-token cache alone; the issuer's handling of the refresh request
\* and the handling of a refresh reply that is no accepted exchange change
\* neither cache, so after them the application-token cache still holds that
\* token and the user entry is as the step found it; a renewal that starts
\* while that cached token has expiresAt > now sends no application-token
\* request.
C25_PartialProgress ==
    [][\A t \in Tasks :
          /\ (task[t].pc = "appSent" /\ task'[t].pc = "refreshSent")
               => /\ task[t].appKey \in DOMAIN appTokenCache'
                  /\ appTokenCache'[task[t].appKey].token = task'[t].appToken
                  /\ appTokenCache'[task[t].appKey].expiresAt >= now
                  /\ task'[t].refreshCalls = 1
                  /\ tokenStore' = tokenStore
          /\ (task[t].pc = "refreshSent" /\ task'[t] # task[t])
               => CachesUnchanged
          /\ (/\ task[t].pc = "refreshReplied"
              /\ task'[t] # task[t]
              /\ ~(task[t].reply.kind = "json" /\ task[t].reply.code = 0))
               => /\ CachesUnchanged
                  /\ task'[t].result.kind \in {"UserTokenExpiredError", "TransportError"}
          /\ (/\ RenewalStartStep(t)
              /\ task'[t].appKey \in DOMAIN appTokenCache
              /\ appTokenCache[task'[t].appKey].expiresAt > now)
               => /\ task'[t].appCalls = 0
                  /\ task'[t].pc = "refreshSent"]_vars

\* No refresh exchange was ever accepted, one renewal fetched the application
\* token and then failed at the refresh step, and the next renewal of the
\* same, unchanged entry has sent its refresh request with the cached
\* application token and no application-token request.
C25_Witness ==
    \E t, u \in Tasks :
        /\ issued = 1
        /\ task[u].pc = "done"
        /\ task[u].result.kind = "UserTokenExpiredError"
        /\ task[u].appCalls = 1 /\ task[u].refreshCalls = 1
        /\ task[t].pc = "refreshSent"
        /\ task[t].appCalls = 0
        /\ task[t].appToken = AppTok(1)
        /\ task[t].refreshToken = RefreshTok(1)
        /\ task[t].key \in DOMAIN tokenStore
        /\ tokenStore[task[t].key].userAccessToken = UserTok(1)
        /\ tokenStore[task[t].key].refreshToken = Some(RefreshTok(1))
        /\ appTokenCache["default"].expiresAt > now

\* The keys whose user-token entry this step creates, removes or changes.
ChangedKeys ==
    {k \in DOMAIN tokenStore \cup DOMAIN tokenStore' :
        \/ k \notin DOMAIN tokenStore
        \/ k \notin DOMAIN tokenStore'
        \/ tokenStore'[k] # tokenStore[k]}

\* C26 (per-key isolation, cache separation): a step of storeUserToken,
\* invalidateUserToken or clearUserToken leaves the application-token cache
\* as it is and touches the user entry of one key at most, unless it is the
\* clear of all keys and leaves no entry at all; with accountId given, none of
\* the three touches the entry of another key; the step of a getUserAccessToken
\* call touches no entry, and every later step of the invocation touches at
\* most the entry of the key of its call.
C26_KeyIsolation ==
    [][/\ task' = task
          => /\ appTokenCache' = appTokenCache
             /\ \/ \E k \in {"default", "acct1"} : ChangedKeys \subseteq {k}
                \/ DOMAIN tokenStore' = {}
             /\ \A a \in KeyedAccountIdInputs \ {Undefined},
                   r \in {Undefined, Some(RefreshTok(userPair))},
                   e \in StoreExpiresInInputs :
                  (\/ tokenStore' = storeUserToken(tokenStore, a, UserTok(userPair), r, e)
                   \/ tokenStore' = invalidateUserToken(tokenStore, a)
                   \/ tokenStore' = clearUserToken(tokenStore, a))
                  => ChangedKeys \subseteq {a[1]}
       /\ \A t \in Tasks :
            task'[t] # task[t]
            => IF task[t].pc \in {"idle", "done"}
               THEN ChangedKeys = {}
               ELSE ChangedKeys \subseteq {task[t].key}]_vars

\* The entry of "acct1" was renewed while the entry of "default", deposited
\* at the start, is exactly as deposited.
C26_Witness ==
    \E t \in Tasks :
        /\ task[t].pc = "done"
        /\ task[t].key = "acct1"
        /\ task[t].result = Ok(UserTok(2), TRUE)
        /\ DOMAIN tokenStore = {"default", "acct1"}
        /\ tokenStore["acct1"].refreshToken = Some(RefreshTok(2))
        /\ tokenStore["default"] =
              [userAccessToken |-> UserTok(1), refreshToken |-> Some(RefreshTok(1)),
               expiresAt |-> StartTime + 6600 * 1000]
        /\ DOMAIN appTokenCache = {"default"}

\* C27 (omitted identifier): on every reachable cache, storeUserToken without
\* accountId writes the entry of key "default" and leaves every other entry
\* alone, exactly as with accountId "default"; invalidateUserToken without
\* accountId sets expiresAt of the "default" entry to 0 and changes no other
\* entry; hasUserToken without accountId tells whether "default" has an
\* entry; getUserAccessToken without accountId looks at the "default" entry
\* only (not found when it is absent, whatever other keys hold; the stored
\* token when it is not expired); but clearUserToken without accountId leaves
\* no entry of any key, while clearUserToken("default") removes the
\* "default" entry only.
C27_OmittedIdentifier ==
    LET others == DOMAIN tokenStore \ {"default"}
        dep == storeUserToken(tokenStore, Undefined, UserTok(userPair),
                              Some(RefreshTok(userPair)), Undefined)
        inv == invalidateUserToken(tokenStore, Undefined)
    IN  /\ DOMAIN dep = DOMAIN tokenStore \cup {"default"}
        /\ dep["default"].userAccessToken = UserTok(userPair)
        /\ \A k \in others : dep[k] = tokenStore[k]
        /\ dep = storeUserToken(tokenStore, Some("default"), UserTok(userPair),
                                Some(RefreshTok(userPair)), Undefined)
        /\ DOMAIN inv = DOMAIN tokenStore
        /\ \A k \in others : inv[k] = tokenStore[k]
        /\ "default" \in DOMAIN tokenStore
             => /\ inv["default"].expiresAt = 0
                /\ inv["default"].userAccessToken = tokenStore["default"].userAccessToken
        /\ inv = invalidateUserToken(tokenStore, Some("default"))
        /\ hasUserToken(tokenStore, Undefined) <=> "default" \in DOMAIN tokenStore
        /\ \A c \in ConfiguredCreds :
              LET g == GetUserAccessTokenStart(tokenStore, appTokenCache, IdleTask,
                                               Undefined, c)
              IN  /\ g.key = "default"
                  /\ "default" \notin DOMAIN tokenStore
                       => g.pc = "done" /\ g.result.kind = "UserTokenNotFoundError"
                  /\ ("default" \in DOMAIN tokenStore
                        /\ tokenStore["default"].expiresAt > now)
                       => /\ g.pc = "done"
                          /\ g.result = Ok(tokenStore["default"].userAccessToken, FALSE)
        /\ DOMAIN clearUserToken(tokenStore, Undefined) = {}
        /\ DOMAIN clearUserToken(tokenStore, Some("default")) = others
        /\ \A k \in others : clearUserToken(tokenStore, Some("default"))[k] = tokenStore[k]
        /\ \A t \in Tasks : task[t].key \in {"default", "acct1"}

\* A call on key "default" found no entry although "acct1" holds a usable
\* one: the cache in which the omitted identifier and clear-all differ from
\* the other keys.
C27_Witness ==
    \E t \in Tasks :
        /\ task[t].pc = "done"
        /\ task[t].key = "default"
        /\ task[t].result.kind = "UserTokenNotFoundError"
        /\ DOMAIN tokenStore = {"acct1"}
        /\ tokenStore["acct1"].expiresAt > now

\* C28 (tool flow): the step in which execute starts either ends the
\* invocation without any acquisition (nothing to request), or its first
\* getUserAccessToken returns the token supplied in this invocation with
\* refreshed = FALSE and the first business request goes out with it: never
\* UserTokenNotFoundError, never a renewal. A renewal (a request to the
\* application-token or to the refresh endpoint) starts only in a step that
\* handles a business response: either the response carried one of the codes
\* 99991663, 99991664, 99991665 on the first attempt and the entry has
\* expiresAt = 0 when the renewal starts, or the response was a success and
\* the renewal belongs to the next acquisition of the same invocation.
C28_FirstAcquisitionIsSupplied ==
    [][\A t \in Tasks :
         task'[t] # task[t]
         => /\ task[t].pc \in {"idle", "done"}
                 => \/ /\ task'[t].pc = "done"
                       /\ task'[t].result = NoResult
                       /\ task'[t].bizCalls = 0
                    \/ /\ task'[t].pc = "bizSent"
                       /\ task'[t].result = Ok(UserTok(userPair), FALSE)
                       /\ task'[t].bearer = UserTok(userPair)
                       /\ task'[t].appCalls = 0
                       /\ task'[t].refreshCalls = 0
            /\ (~RenewalInFlight(t) /\ RenewalInFlight(t)')
                 => /\ task[t].pc = "bizSent"
                    /\ \/ /\ task[t].caller = "first"
                          /\ task'[t].caller = "retry"
                          /\ task'[t].bizCode \in {99991663, 99991664, 99991665}
                          /\ tokenStore'[task'[t].key].expiresAt = 0
                       \/ /\ task'[t].caller = "first"
                          /\ task'[t].bizCode = -1
                          /\ task'[t].remaining = task[t].remaining - 1]_vars

\* A renewal is under way after the business API answered the first request,
\* which carried the supplied token, with code 99991663.
C28_Witness ==
    \E t \in Tasks :
        /\ task[t].pc = "refreshSent"
        /\ task[t].caller = "retry"
        /\ task[t].bizCode = 99991663
        /\ tokenStore[task[t].key].expiresAt = 0
        /\ tokenStore[task[t].key].userAccessToken = UserTok(userPair)

====
